---- MODULE Spec2Model ----
(***************************************************************************)
(* Model of src/app.py: the Streamlit dashboard script.  One run of the    *)
(* script (a "render pass") scans the data directory, lets the user pick   *)
(* a dataset, loads it and runs the five tab blocks in order.              *)
(*                                                                         *)
(* Strings are sequences of one-character strings, so that split, strip    *)
(* and replace are computed character by character.  Table cells are       *)
(* records tagged with their kind (number, string, missing).               *)
(***************************************************************************)
EXTENDS Integers, Sequences, FiniteSets, TLC

VARIABLES
    pc,                 \* position of the script run
    listing,            \* what os.listdir(DATA_DIR) returned in this run
    datasets,           \* the registry dict: display name -> path
    dataset_name,       \* the sidebar selectbox's value
    csv,                \* what pd.read_csv found at the selected path
    df,                 \* the table of this run
    numerical_df,       \* tab1: df.select_dtypes(include=['number'])
    x_feature,          \* tab2 selectbox values
    y_feature,
    counts,             \* tab3/tab4: df['Label'].value_counts()
    bars,               \* the heights drawn by sns.barplot
    wedges,             \* the values drawn by ax.pie
    numerical_columns,  \* tab5: the numeric column names
    feature_col,        \* tab5 selectbox value
    shown,              \* per tab: what the tab block put on the page
    download,           \* per tab: whether st.download_button was called
    messages            \* st.error / st.sidebar.warning outside the tabs

vars == << pc, listing, datasets, dataset_name, csv, df, numerical_df,
           x_feature, y_feature, counts, bars, wedges, numerical_columns,
           feature_col, shown, download, messages >>

----------------------------------------------------------------------------
(* Bounds of the model. *)

MaxRows == 3
MaxFiles == 2
MaxNameLen == 3
MaxColLen == 4

----------------------------------------------------------------------------
(* Strings. *)

StringsOver(alphabet, maxlen) ==
    UNION { [1..n -> alphabet] : n \in 0..maxlen }

Range(s) == { s[i] : i \in 1..Len(s) }

\* Python's None, distinct from every string (no element is one character).
None == << "None" >>

\* Python truthiness of a selectbox value: None and '' are falsy.
Truthy(s) == s # None /\ s # << >>

\* The characters str.strip() removes that the model's alphabets contain.
Whitespace == { " ", "\t" }

RECURSIVE LStrip(_)
LStrip(s) ==
    IF s = << >> THEN s
    ELSE IF Head(s) \in Whitespace THEN LStrip(Tail(s)) ELSE s

RECURSIVE RStrip(_)
RStrip(s) ==
    IF s = << >> THEN s
    ELSE IF s[Len(s)] \in Whitespace THEN RStrip(SubSeq(s, 1, Len(s) - 1)) ELSE s

Strip(s) == RStrip(LStrip(s))

Replace(s, old, new) == [ i \in 1..Len(s) |-> IF s[i] = old THEN new ELSE s[i] ]

\* A version of line 33 with the arguments of replace swapped.
NormalizeNameSwapped(s) == Replace(Strip(s), "_", " ")

\* Line 33, for one column name: .str.strip().str.replace(' ', '_')
NormalizeName(s) == Replace(Strip(s), " ", "_")

NormalizeColumns(cols) == [ i \in 1..Len(cols) |-> NormalizeName(cols[i]) ]

----------------------------------------------------------------------------
(* Dataset registry (lines 26-27). *)

DATA_DIR == << ".", "/", "d", "a", "t", "a" >>

\* os.path.join(DATA_DIR, file)
PathJoin(dir, file) == dir \o << "/" >> \o file

\* file.split(".")[0]: the part before the first dot
RECURSIVE SplitFirst(_)
SplitFirst(file) ==
    IF file = << >> THEN << >>
    ELSE IF Head(file) = "." THEN << >>
    ELSE << Head(file) >> \o SplitFirst(Tail(file))

\* The dict comprehension of line 27.  A later file with the same key
\* overwrites an earlier one, and os.listdir returns the entries in
\* arbitrary order, so any file of a key may be the one that stays.
RegistryDicts(files) ==
    LET keys == { SplitFirst(f) : f \in files }
        paths == { PathJoin(DATA_DIR, f) : f \in files }
    IN  { d \in [keys -> paths] :
            \A k \in keys :
                \E f \in files : SplitFirst(f) = k /\ d[k] = PathJoin(DATA_DIR, f) }

\* st.selectbox(label, options): one of the options, None when there is none.
Selectbox(options) == IF options = {} THEN { None } ELSE options

----------------------------------------------------------------------------
(* Tables. *)

Num(n) == [ kind |-> "num", n |-> n, s |-> "" ]
Str(s) == [ kind |-> "str", n |-> 0, s |-> s ]
NaN    == [ kind |-> "nan", n |-> 0, s |-> "" ]

\* pd.DataFrame(): no columns, no rows.  data[c] holds the cells of column c.
EmptyDataFrame == [ columns |-> << >>, data |-> << >> ]

NRows(t) == IF Len(t.data) = 0 THEN 0 ELSE Len(t.data[1])

\* DataFrame.empty: any axis of length 0
IsEmpty(t) == Len(t.columns) = 0 \/ NRows(t) = 0

\* The dtype pandas gives a column is a number dtype exactly when no cell
\* holds a string (missing cells are NaN of a float column).
IsNumberDtype(col) == \A i \in 1..Len(col) : col[i].kind # "str"

\* The increasing sequence of the members of S among 1..n.
RECURSIVE Ascending(_, _)
Ascending(n, S) ==
    IF n = 0 THEN << >>
    ELSE IF n \in S THEN Append(Ascending(n - 1, S), n) ELSE Ascending(n - 1, S)

Restrict(t, S) ==
    LET idx == Ascending(Len(t.columns), S)
    IN  [ columns |-> [ i \in 1..Len(idx) |-> t.columns[idx[i]] ],
          data    |-> [ i \in 1..Len(idx) |-> t.data[idx[i]] ] ]

\* A version of the numeric selection that keeps every column.
select_dtypes_all(t) == t

\* df.select_dtypes(include=['number'])  (lines 62 and 144)
select_dtypes(t) ==
    Restrict(t, { c \in 1..Len(t.columns) : IsNumberDtype(t.data[c]) })

Label == << "L", "a", "b", "e", "l" >>

HasColumn(t, name) == \E c \in 1..Len(t.columns) : t.columns[c] = name

ColumnIndex(t, name) == CHOOSE c \in 1..Len(t.columns) : t.columns[c] = name

\* A version of the mapping with the two categories exchanged.
RecodeExchanged(v) ==
    IF v = Num(1) THEN Str("Normal")
    ELSE IF v = Num(0) THEN Str("Attack")
    ELSE v

\* .replace({1: 'Attack', 0: 'Normal'}) on one cell  (lines 101 and 126)
Recode(v) ==
    IF v = Num(1) THEN Str("Attack")
    ELSE IF v = Num(0) THEN Str("Normal")
    ELSE v

\* A version of the assignment that recodes a copy and leaves df alone.
RecodeLabelOnCopy(t) == t

\* df['Label'] = df['Label'].replace(...): the table with its Label column
\* replaced  (lines 101 and 126)
RecodeLabel(t) ==
    LET c == ColumnIndex(t, Label)
    IN  [ t EXCEPT !.data[c] = [ i \in 1..Len(t.data[c]) |-> Recode(t.data[c][i]) ] ]

\* Series.value_counts(): the occurrences of each value, missing cells
\* dropped (dropna=True is the default).
value_counts(col) ==
    LET present == { col[i] : i \in { j \in 1..Len(col) : col[j].kind # "nan" } }
    IN  [ v \in present |-> Cardinality({ i \in 1..Len(col) : col[i] = v }) ]

----------------------------------------------------------------------------
(* Dataset loader (lines 30-37). *)

\* What pd.read_csv finds: a parsed table, or the exception it raises.
Parsed(columns, data) == [ error |-> "", columns |-> columns, data |-> data ]
Failure(e) == [ error |-> e, columns |-> << >>, data |-> << >> ]
Unread == Failure("unread")

\* A version of the loader without the try/except.
load_dataset_unguarded(content) ==
    IF content.error # ""
    THEN [ df |-> EmptyDataFrame, message |-> "", raised |-> TRUE ]
    ELSE [ df |-> [ columns |-> NormalizeColumns(content.columns),
                    data |-> content.data ],
           message |-> "", raised |-> FALSE ]

\* load_dataset(file_path), given what read_csv finds at file_path
load_dataset(content) ==
    IF content.error # ""
    THEN [ df |-> EmptyDataFrame, message |-> "load_error", raised |-> FALSE ]
    ELSE [ df |-> [ columns |-> NormalizeColumns(content.columns),
                    data |-> content.data ],
           message |-> "", raised |-> FALSE ]

----------------------------------------------------------------------------
(* The inputs the model draws from: directory listings, file contents. *)

\* Entry names over a two-letter alphabet; os.listdir never returns "." or "..".
FileNames ==
    StringsOver({ "a", "." }, MaxNameLen) \ { << >>, << "." >>, << ".", "." >> }

AllListings == { d \in SUBSET FileNames : Cardinality(d) <= MaxFiles }

OneFile == { {}, { << "a" >> } }

ReadErrors == { "missing", "malformed", "empty", "encoding" }

Failures == { Failure(e) : e \in ReadErrors }

\* The Label columns read_csv can produce: a number column (with missing
\* cells), or a column of strings.
LabelCells(n) ==
    [1..n -> { Num(0), Num(1), Num(2), NaN }] \cup { [ i \in 1..n |-> Str("x") ] }

LabelHeaders == { Label, << " " >> \o Label }

\* The other columns a table may have, by raw header: a number column, a
\* string column, and a number column whose header is a single space.
OtherHeaders == << << "n" >>, << "s" >>, << " " >> >>

OtherCells(h, n) ==
    IF h = << "s" >> THEN [ i \in 1..n |-> Str("TCP") ] ELSE [ i \in 1..n |-> Num(i) ]

OtherColumns(S, n) ==
    LET idx == Ascending(Len(OtherHeaders), S)
    IN  Parsed([ i \in 1..Len(idx) |-> OtherHeaders[idx[i]] ],
               [ i \in 1..Len(idx) |-> OtherCells(OtherHeaders[idx[i]], n) ])

Tables ==
    UNION { UNION { { o } \cup
                    { Parsed(<< h >> \o o.columns, << cells >> \o o.data) :
                        h \in LabelHeaders, cells \in LabelCells(n) }
                  : o \in { OtherColumns(S, n) : S \in SUBSET (1..Len(OtherHeaders)) } }
          : n \in 0..MaxRows } \ { Parsed(<< >>, << >>) }

PassContents == Failures \cup Tables

\* One small table and one failure, for the runs that vary the directory.
FewContents ==
    { Failure("missing"), Parsed(<< Label, << "s" >> >>, << << Num(1) >>, << Str("TCP") >> >>) }

\* One-column tables over every raw header of a four-letter alphabet.
HeaderContents ==
    { Parsed(<< h >>, << << Num(1) >> >>) :
        h \in StringsOver({ " ", "\t", "_", "a" }, MaxColLen) \ { << >> } }

----------------------------------------------------------------------------
(* The script run. *)

Tabs == { "heatmap", "scatter", "bar", "pie", "box" }

Fresh ==
    /\ listing = {}
    /\ datasets = << >>
    /\ dataset_name = None
    /\ csv = Unread
    /\ df = EmptyDataFrame
    /\ numerical_df = EmptyDataFrame
    /\ x_feature = None
    /\ y_feature = None
    /\ counts = << >>
    /\ bars = << >>
    /\ wedges = << >>
    /\ numerical_columns = << >>
    /\ feature_col = None
    /\ shown = [ t \in Tabs |-> "notrun" ]
    /\ download = [ t \in Tabs |-> FALSE ]
    /\ messages = {}

Init == pc = "start" /\ Fresh

\* Lines 26-27: scan the directory and build the registry.
Registry(listings) ==
    /\ pc = "start"
    /\ \E files \in listings :
         /\ listing' = files
         /\ datasets' \in RegistryDicts(files)
    /\ pc' = "sidebar"
    /\ UNCHANGED << dataset_name, csv, df, numerical_df, x_feature, y_feature,
                    counts, bars, wedges, numerical_columns, feature_col,
                    shown, download, messages >>

\* Lines 49-51 and 162-163: the dataset selectbox and the test of its value.
SelectDataset ==
    /\ pc = "sidebar"
    /\ \E name \in Selectbox(DOMAIN datasets) :
         /\ dataset_name' = name
         /\ IF Truthy(name)
            THEN pc' = "load" /\ UNCHANGED messages
            ELSE pc' = "idle" /\ messages' = messages \cup { "select_warning" }
    /\ UNCHANGED << listing, datasets, csv, df, numerical_df, x_feature,
                    y_feature, counts, bars, wedges, numerical_columns,
                    feature_col, shown, download >>

\* Lines 52-54 and 160-161: load the selected file and test df.empty.
LoadDataset(contents) ==
    /\ pc = "load"
    /\ \E content \in contents :
         LET r == load_dataset(content)
         IN  /\ csv' = content
             /\ df' = r.df
             /\ IF r.raised
                THEN pc' = "aborted" /\ UNCHANGED messages
                ELSE IF ~IsEmpty(r.df)
                THEN /\ pc' = "tab1"
                     /\ messages' = messages \cup (IF r.message = "" THEN {} ELSE { r.message })
                ELSE /\ pc' = "idle"
                     /\ messages' = messages \cup { "empty_error" }
                                    \cup (IF r.message = "" THEN {} ELSE { r.message })
    /\ UNCHANGED << listing, datasets, dataset_name, numerical_df, x_feature,
                    y_feature, counts, bars, wedges, numerical_columns,
                    feature_col, shown, download >>

\* Lines 60-76: Correlation Heatmap.
Tab1 ==
    /\ pc = "tab1"
    /\ numerical_df' = select_dtypes(df)
    /\ IF ~IsEmpty(numerical_df')
       THEN /\ shown' = [ shown EXCEPT !["heatmap"] = "figure" ]
            /\ download' = [ download EXCEPT !["heatmap"] = TRUE ]
       ELSE /\ shown' = [ shown EXCEPT !["heatmap"] = "warning" ]
            /\ UNCHANGED download
    /\ pc' = "tab2"
    /\ UNCHANGED << listing, datasets, dataset_name, csv, df, x_feature,
                    y_feature, counts, bars, wedges, numerical_columns,
                    feature_col, messages >>

\* Lines 78-96: Scatter Plot.
Tab2 ==
    /\ pc = "tab2"
    /\ \E x \in Selectbox(Range(df.columns)), y \in Selectbox(Range(df.columns)) :
         /\ x_feature' = x
         /\ y_feature' = y
         /\ IF Truthy(x) /\ Truthy(y)
            THEN /\ shown' = [ shown EXCEPT !["scatter"] = "figure" ]
                 /\ download' = [ download EXCEPT !["scatter"] = TRUE ]
            ELSE /\ shown' = [ shown EXCEPT !["scatter"] = "blank" ]
                 /\ UNCHANGED download
    /\ pc' = "tab3"
    /\ UNCHANGED << listing, datasets, dataset_name, csv, df, numerical_df,
                    counts, bars, wedges, numerical_columns, feature_col,
                    messages >>

\* A version of the Bar Chart whose else branch ends the run (st.stop()).
Tab3Stops ==
    /\ pc = "tab3"
    /\ IF HasColumn(df, Label)
       THEN /\ df' = RecodeLabel(df)
            /\ counts' = value_counts(df'.data[ColumnIndex(df, Label)])
            /\ bars' = counts'
            /\ shown' = [ shown EXCEPT !["bar"] = "figure" ]
            /\ download' = [ download EXCEPT !["bar"] = TRUE ]
            /\ pc' = "tab4"
       ELSE /\ shown' = [ shown EXCEPT !["bar"] = "warning" ]
            /\ pc' = "idle"
            /\ UNCHANGED << df, counts, bars, download >>
    /\ UNCHANGED << listing, datasets, dataset_name, csv, numerical_df,
                    x_feature, y_feature, wedges, numerical_columns,
                    feature_col, messages >>

\* Lines 98-121: Bar Chart.
Tab3 ==
    /\ pc = "tab3"
    /\ IF HasColumn(df, Label)
       THEN /\ df' = RecodeLabel(df)
            /\ counts' = value_counts(df'.data[ColumnIndex(df, Label)])
            /\ bars' = counts'
            /\ shown' = [ shown EXCEPT !["bar"] = "figure" ]
            /\ download' = [ download EXCEPT !["bar"] = TRUE ]
       ELSE /\ shown' = [ shown EXCEPT !["bar"] = "warning" ]
            /\ UNCHANGED << df, counts, bars, download >>
    /\ pc' = "tab4"
    /\ UNCHANGED << listing, datasets, dataset_name, csv, numerical_df,
                    x_feature, y_feature, wedges, numerical_columns,
                    feature_col, messages >>

\* Lines 123-140: Pie Chart.
Tab4 ==
    /\ pc = "tab4"
    /\ IF HasColumn(df, Label)
       THEN /\ df' = RecodeLabel(df)
            /\ counts' = value_counts(df'.data[ColumnIndex(df, Label)])
            /\ wedges' = counts'
            /\ shown' = [ shown EXCEPT !["pie"] = "figure" ]
            /\ download' = [ download EXCEPT !["pie"] = TRUE ]
       ELSE /\ shown' = [ shown EXCEPT !["pie"] = "warning" ]
            /\ UNCHANGED << df, counts, wedges, download >>
    /\ pc' = "tab5"
    /\ UNCHANGED << listing, datasets, dataset_name, csv, numerical_df,
                    x_feature, y_feature, bars, numerical_columns,
                    feature_col, messages >>

\* Lines 142-159: Box Plot.
Tab5 ==
    /\ pc = "tab5"
    /\ numerical_columns' = select_dtypes(df).columns
    /\ \E f \in Selectbox(Range(numerical_columns')) :
         /\ feature_col' = f
         /\ IF Truthy(f)
            THEN /\ shown' = [ shown EXCEPT !["box"] = "figure" ]
                 /\ download' = [ download EXCEPT !["box"] = TRUE ]
            ELSE /\ shown' = [ shown EXCEPT !["box"] = "blank" ]
                 /\ UNCHANGED download
    /\ pc' = "idle"
    /\ UNCHANGED << listing, datasets, dataset_name, csv, df, numerical_df,
                    x_feature, y_feature, counts, bars, wedges, messages >>

\* The next widget interaction: Streamlit runs the script again from the top.
Rerun ==
    /\ pc \in { "idle", "aborted" }
    /\ pc' = "start"
    /\ listing' = {}
    /\ datasets' = << >>
    /\ dataset_name' = None
    /\ csv' = Unread
    /\ df' = EmptyDataFrame
    /\ numerical_df' = EmptyDataFrame
    /\ x_feature' = None
    /\ y_feature' = None
    /\ counts' = << >>
    /\ bars' = << >>
    /\ wedges' = << >>
    /\ numerical_columns' = << >>
    /\ feature_col' = None
    /\ shown' = [ t \in Tabs |-> "notrun" ]
    /\ download' = [ t \in Tabs |-> FALSE ]
    /\ messages' = {}

\* The steps of one run of the script, which runs to its end once started.
Pass(listings, contents) ==
    \/ Registry(listings)
    \/ SelectDataset
    \/ LoadDataset(contents)
    \/ Tab1
    \/ Tab2
    \/ Tab3
    \/ Tab4
    \/ Tab5

Next == Pass(OneFile, PassContents) \/ Rerun

Spec == Init /\ [][Next]_vars

\* The script is sequential code: a run that has started reaches its end.
\* The user need not interact again, so Rerun carries no fairness.
FairSpec == Spec /\ WF_vars(Pass(OneFile, PassContents))

NextRegistry == Pass(AllListings, FewContents) \/ Rerun

SpecRegistry == Init /\ [][NextRegistry]_vars

NextHeaders == Pass(OneFile, HeaderContents) \/ Rerun

SpecHeaders == Init /\ [][NextHeaders]_vars

----------------------------------------------------------------------------
(* Properties. *)

RECURSIVE SumOver(_, _)
SumOver(f, S) ==
    IF S = {} THEN 0
    ELSE LET v == CHOOSE x \in S : TRUE IN f[v] + SumOver(f, S \ { v })

\* The sum of the counts of a value_counts() result.
Total(f) == SumOver(f, DOMAIN f)

\* A table was read and is not empty: the five tab blocks are entered.
Rendering == csv.error = "" /\ ~IsEmpty(df)

\* The Label cells as read from the file (the file's column order is df's).
LoadedLabel == csv.data[ColumnIndex(df, Label)]

CurrentLabel == df.data[ColumnIndex(df, Label)]

\* C1: when reading the selected file fails (missing, malformed, empty,
\* encoding error), the run is not aborted by the exception: the load error
\* is reported, df is the empty table, no tab block runs, and the run is
\* over (idle).
LoadFailureDegrades ==
    /\ pc # "aborted"
    /\ csv \in Failures =>
         /\ pc = "idle"
         /\ "load_error" \in messages
         /\ df = EmptyDataFrame
         /\ \A t \in Tabs : shown[t] = "notrun" /\ ~download[t]

LoadFailureSeen ==
    pc = "idle" /\ csv = Failure("empty") /\ "load_error" \in messages

\* C2: the counts drawn by the Bar Chart, and those drawn by the Pie Chart,
\* sum to the number of rows of the table.
CountsSumToRows ==
    /\ shown["bar"] = "figure" => Total(bars) = NRows(df)
    /\ shown["pie"] = "figure" => Total(wedges) = NRows(df)

\* C3: recoding turns 0 into "Normal" and 1 into "Attack" (two different
\* categories) and leaves every other cell as it is; this holds of the Label
\* column after the Bar Chart alone and still after the Pie Chart has
\* recoded the recoded column, so the second application changes nothing.
RecodingStable ==
    (pc \in { "tab4", "tab5", "idle" } /\ shown["bar"] = "figure") =>
        \A i \in 1..NRows(df) :
            /\ LoadedLabel[i] = Num(0) => CurrentLabel[i] = Str("Normal")
            /\ LoadedLabel[i] = Num(1) => CurrentLabel[i] = Str("Attack")
            /\ LoadedLabel[i] \notin { Num(0), Num(1) } => CurrentLabel[i] = LoadedLabel[i]

RecodedTwice ==
    /\ pc = "idle"
    /\ shown["bar"] = "figure"
    /\ shown["pie"] = "figure"
    /\ { Num(0), Num(1), Num(2) } \subseteq Range(LoadedLabel)

\* C4: after the Bar Chart or the Pie Chart has run, the table the other
\* tab blocks read still holds the cells as loaded.
TableKeptAsLoaded ==
    (shown["bar"] = "figure" \/ shown["pie"] = "figure") => df.data = csv.data

\* C5: a tab block that ran with its precondition failed (no number column
\* for the heatmap, no Label column for the bar and pie charts, no column
\* chosen for the scatter and box plots) shows a warning.
FailedPreconditionNoticed ==
    /\ (shown["heatmap"] # "notrun"
          /\ \A c \in 1..Len(df.columns) : ~IsNumberDtype(csv.data[c]))
        => shown["heatmap"] = "warning"
    /\ (shown["scatter"] # "notrun" /\ (x_feature = None \/ y_feature = None))
        => shown["scatter"] = "warning"
    /\ (shown["bar"] # "notrun" /\ ~HasColumn(df, Label))
        => shown["bar"] = "warning"
    /\ (shown["pie"] # "notrun" /\ ~HasColumn(df, Label))
        => shown["pie"] = "warning"
    /\ (shown["box"] # "notrun" /\ feature_col = None)
        => shown["box"] = "warning"

\* C6: on a non-empty table none of whose columns is a number column, the
\* heatmap block shows the warning, draws no figure, offers no download and
\* has nothing to correlate.
HeatmapNotApplicable ==
    (Rendering /\ shown["heatmap"] # "notrun"
       /\ \A c \in 1..Len(df.columns) : \E i \in 1..NRows(df) : csv.data[c][i].kind = "str")
    => /\ shown["heatmap"] = "warning"
       /\ ~download["heatmap"]
       /\ numerical_df.columns = << >>

HeatmapWarned ==
    Rendering /\ pc = "idle" /\ shown["heatmap"] = "warning" /\ shown["bar"] = "figure"

\* os.path.splitext: the name without its extension (the part before the
\* last dot; leading dots are not an extension's dot).
RECURSIVE LeadingDots(_)
LeadingDots(f) ==
    IF f # << >> /\ Head(f) = "." THEN 1 + LeadingDots(Tail(f)) ELSE 0

NameWithoutExtension(f) ==
    LET dots == { i \in (LeadingDots(f) + 1)..Len(f) : f[i] = "." }
    IN  IF dots = {} THEN f
        ELSE SubSeq(f, 1, (CHOOSE i \in dots : \A j \in dots : j <= i) - 1)

\* C7: the registry holds one entry per file found, keyed by the file name
\* without its extension and mapped to that file's path; for an empty
\* directory it is empty and no dataset is selected.
RegistryOnePerFile ==
    pc # "start" =>
        /\ Cardinality(DOMAIN datasets) = Cardinality(listing)
        /\ \A f \in listing :
             /\ NameWithoutExtension(f) \in DOMAIN datasets
             /\ datasets[NameWithoutExtension(f)] = PathJoin(DATA_DIR, f)
        /\ listing = {} => (datasets = << >> /\ dataset_name = None)

\* C8: the column names of a loaded table are a fixed point of the
\* normalization: normalizing them again yields the same names.
NormalizationIdempotent ==
    csv.error = "" =>
        \A i \in 1..Len(df.columns) : NormalizeName(df.columns[i]) = df.columns[i]

NormalizationApplied ==
    /\ pc = "tab1"
    /\ Len(df.columns[1]) < Len(csv.columns[1])
    /\ "_" \in Range(df.columns[1])
    /\ "_" \notin Range(csv.columns[1])

\* C9: in a run over a non-empty table every tab block runs, and each block
\* whose own precondition holds draws its figure and offers its download,
\* whatever the other blocks did; and every run that has started ends idle.
EachChartOnItsOwn ==
    (Rendering /\ pc = "idle") =>
        /\ \A t \in Tabs : shown[t] # "notrun" /\ (download[t] <=> shown[t] = "figure")
        /\ (\E c \in 1..Len(df.columns) : \A i \in 1..NRows(df) : csv.data[c][i].kind # "str")
             => shown["heatmap"] = "figure"
        /\ (Truthy(x_feature) /\ Truthy(y_feature)) => shown["scatter"] = "figure"
        /\ HasColumn(df, Label) => (shown["bar"] = "figure" /\ shown["pie"] = "figure")
        /\ Truthy(feature_col) => shown["box"] = "figure"

Order == << "heatmap", "scatter", "bar", "pie", "box" >>

LabelNumericThenNot ==
    /\ \A k \in 2..Len(Order) : shown[Order[k]] # "notrun" => shown[Order[k - 1]] # "notrun"
    /\ (Rendering /\ HasColumn(df, Label)
          /\ \A i \in 1..NRows(df) : LoadedLabel[i] \in { Num(0), Num(1) })
        => /\ shown["heatmap"] # "notrun" => Label \in Range(numerical_df.columns)
           /\ shown["box"] # "notrun" => Label \notin Range(numerical_columns)
    /\ (shown["box"] # "notrun" /\ feature_col # None)
        => /\ HasColumn(df, feature_col)
           /\ IsNumberDtype(df.data[ColumnIndex(df, feature_col)])

BoxAfterRecoding ==
    /\ Rendering
    /\ pc = "idle"
    /\ HasColumn(df, Label)
    /\ Range(LoadedLabel) = { Num(0), Num(1) }
    /\ Label \in Range(numerical_df.columns)
    /\ shown["box"] = "figure"

====
